---- MODULE Spec2Model ----
(***************************************************************************)
(* Model of the one-time-pad crate (src/src/lib.rs): the byte-wise XOR     *)
(* transform behind OneTimePad::encrypt / OneTimePad::decrypt, its         *)
(* error_check, and OneTimePad::generate_random_pad, driven by a caller    *)
(* that holds a pad buffer and a data buffer as the crate's tests do.      *)
(***************************************************************************)
EXTENDS Integers, Sequences, FiniteSets, TLC

(* ------------------------------ bounds --------------------------------- *)

\* longest pad / data buffer the caller builds from ByteSample
MaxLen == 2
\* most encrypt/decrypt calls one caller makes
MaxCalls == 3

\* the byte values the enumerated buffers are built from
ByteSample == {0, 1, 255}

\* width of the u8 elements of Vec<u8>
U8_BITS == 8

RECURSIVE pow2(_)
pow2(n) == IF n = 0 THEN 1 ELSE 2 * pow2(n - 1)

SeqsOfLen(S, n) == [1 .. n -> S]
SeqsUpTo(S, n) == UNION {SeqsOfLen(S, k) : k \in 0 .. n}

(* --------------------------- literal buffers --------------------------- *)

\* tests::edge_cases_encrypt
KnownPlain == <<0, 0, 0, 1, 1, 1, 255, 255, 255>>
KnownPad == <<0, 1, 255, 0, 1, 255, 0, 1, 255>>
KnownResult == <<0, 1, 255, 1, 0, 254, 255, 254, 0>>

\* a pad and a shorter data buffer (lengths 3 and 2)
ShortPad == <<7, 6, 5>>
ShortData == <<1, 2>>

LiteralPads == {KnownPad, ShortPad}
LiteralData == {KnownPlain, ShortData}

(* ------------------------------ outcomes ------------------------------- *)

\* the single message of the panic! in error_check
PanicMsg == "Buffer lengths do not match or cannot be zero"

Ok(v) == [tag |-> "Ok", val |-> v, err |-> ""]
Err(e) == [tag |-> "Err", val |-> <<>>, err |-> e]
Panic(m) == [tag |-> "Panic", val |-> <<>>, err |-> m]
Unit == [tag |-> "Unit", val |-> <<>>, err |-> ""]

None == [some |-> FALSE, v |-> <<>>]
Some(x) == [some |-> TRUE, v |-> x]

(* --------------------------- the XOR of bytes -------------------------- *)

RECURSIVE xor_bits(_, _, _)
xor_bits(a, b, n) ==
    IF n = 0 THEN 0
    ELSE (((a % 2) + (b % 2)) % 2) + 2 * xor_bits(a \div 2, b \div 2, n - 1)

RECURSIVE or_bits(_, _, _)
or_bits(a, b, n) ==
    IF n = 0 THEN 0
    ELSE (IF (a % 2) = 1 \/ (b % 2) = 1 THEN 1 ELSE 0)
         + 2 * or_bits(a \div 2, b \div 2, n - 1)

\* x1 | x2 written for x1 ^ x2
or_u8(x1, x2) == or_bits(x1, x2, U8_BITS)

\* x1.wrapping_add(x2) written for x1 ^ x2
wrapping_add_u8(x1, x2) == (x1 + x2) % pow2(U8_BITS)

\* the closure |(&x1, &x2)| x1 ^ x2
xor_u8(x1, x2) == xor_bits(x1, x2, U8_BITS)

Min(a, b) == IF a < b THEN a ELSE b

\* each output byte also folds in the previous output byte
RECURSIVE chain_xor(_, _, _)
chain_xor(a, b, k) ==
    IF k = 0 THEN <<>>
    ELSE LET prev == chain_xor(a, b, k - 1)
         IN Append(prev, xor_u8(xor_u8(a[k], b[k]),
                                IF k = 1 THEN 0 ELSE prev[k - 1]))

zip_xor_chained(pad_buffer, data_buffer) ==
    chain_xor(pad_buffer, data_buffer, Min(Len(pad_buffer), Len(data_buffer)))

\* pad_buffer.iter().zip(data_buffer.iter()).map(..).collect():
\* zip stops at the shorter of the two iterators
zip_xor(pad_buffer, data_buffer) ==
    [i \in 1 .. Min(Len(pad_buffer), Len(data_buffer)) |->
        xor_u8(pad_buffer[i], data_buffer[i])]

(* ------------------------------ error_check ---------------------------- *)

\* the length comparison dropped
error_check_zero_only(buf_a, buf_b) ==
    IF Len(buf_a) = 0 \/ Len(buf_b) = 0 THEN Panic(PanicMsg) ELSE Unit

\* the zero-length tests dropped
error_check_mismatch_only(buf_a, buf_b) ==
    IF Len(buf_a) # Len(buf_b) THEN Panic(PanicMsg) ELSE Unit

error_check(buf_a, buf_b) ==
    IF Len(buf_a) # Len(buf_b) \/ Len(buf_a) = 0 \/ Len(buf_b) = 0
    THEN Panic(PanicMsg)
    ELSE Unit

(* -------------------------------- operate ------------------------------ *)

\* the call to error_check left out
operate_unchecked(pad_buffer, data_buffer) ==
    [ret |-> Ok(zip_xor(pad_buffer, data_buffer)),
     pad_buffer |-> pad_buffer,
     data_buffer |-> data_buffer]

\* the result written over the data buffer
operate_in_place(pad_buffer, data_buffer) ==
    LET chk == error_check(pad_buffer, data_buffer)
    IN [ret |-> IF chk.tag = "Panic" THEN chk
                ELSE Ok(zip_xor(pad_buffer, data_buffer)),
        pad_buffer |-> pad_buffer,
        data_buffer |-> IF chk.tag = "Panic" THEN data_buffer
                        ELSE zip_xor(pad_buffer, data_buffer)]

\* ret: what the call yields; pad_buffer, data_buffer: the borrowed buffers as
\* the call leaves them (both are shared borrows, &Vec<u8>)
operate(pad_buffer, data_buffer) ==
    LET chk == error_check(pad_buffer, data_buffer)
    IN [ret |-> IF chk.tag = "Panic" THEN chk
                ELSE Ok(zip_xor(pad_buffer, data_buffer)),
        pad_buffer |-> pad_buffer,
        data_buffer |-> data_buffer]

encrypt(pad_buffer, plain_text_buffer) == operate(pad_buffer, plain_text_buffer)

\* decrypt with its own XOR loop and no check of the buffers
decrypt_unchecked(pad_buffer, encrypted_data_buffer) ==
    operate_unchecked(pad_buffer, encrypted_data_buffer)

decrypt(pad_buffer, encrypted_data_buffer) ==
    operate(pad_buffer, encrypted_data_buffer)

(* -------------------------- generate_random_pad ------------------------ *)

\* vec![0; length]
zeros(length) == [i \in 1 .. length |-> 0]

\* what getrandom::getrandom(&mut arr) can do: fill arr, or fail
EntropyOutcomes(length) ==
    {[ok |-> TRUE, bytes |-> b] : b \in SeqsOfLen(ByteSample, length)}
      \cup {[ok |-> FALSE, bytes |-> zeros(length)]}

\* the ? dropped: the buffer is returned whether or not it was filled
generate_random_pad_ignoring_error(length, entropy) ==
    LET arr == zeros(length)
    IN Ok(IF entropy.ok THEN entropy.bytes ELSE arr)

\* the buffer allocated one byte too long
generate_random_pad_off_by_one(length, entropy) ==
    LET arr == zeros(length + 1)
    IN IF entropy.ok THEN Ok(entropy.bytes \o <<0>>) ELSE Err("getrandom::Error")

\* getrandom overwrites every byte of arr, or fails and ? returns its error
generate_random_pad(length, entropy) ==
    LET arr == zeros(length)
    IN IF entropy.ok
       THEN Ok([i \in DOMAIN arr |-> entropy.bytes[i]])
       ELSE Err("getrandom::Error")

(* ------------------------------- the state ----------------------------- *)

VARIABLES
    caller,      \* "running", or "panicked" once a call has panicked
    pad,         \* the caller's pad buffer (None until it has one)
    pad_origin,  \* "none", "generated" or "literal"
    data,        \* the caller's data buffer (None until it has one)
    gen,         \* the last generate_random_pad call: length, entropy, ret
    calls        \* the encrypt/decrypt calls made so far, in order

vars == <<caller, pad, pad_origin, data, gen, calls>>

NoGen == [called |-> FALSE, length |-> 0, ok |-> TRUE, ret |-> Unit]

Init ==
    /\ caller = "running"
    /\ pad = None
    /\ pad_origin = "none"
    /\ data = None
    /\ gen = NoGen
    /\ calls = <<>>

\* let pad = OneTimePad::generate_random_pad(n) ...
GeneratePad(length, entropy) ==
    /\ caller = "running"
    /\ ~pad.some
    /\ LET r == generate_random_pad(length, entropy)
       IN /\ gen' = [called |-> TRUE, length |-> length,
                     ok |-> entropy.ok, ret |-> r]
          /\ pad' = IF r.tag = "Ok" THEN Some(r.val) ELSE pad
          /\ pad_origin' = IF r.tag = "Ok" THEN "generated" ELSE pad_origin
    /\ UNCHANGED <<caller, data, calls>>

\* let pad = vec![...]
LiteralPad(p) ==
    /\ caller = "running"
    /\ ~pad.some
    /\ pad' = Some(p)
    /\ pad_origin' = "literal"
    /\ UNCHANGED <<caller, data, gen, calls>>

\* let plain_text = ... (a literal, random data, or the bytes of a file)
LoadData(d) ==
    /\ caller = "running"
    /\ ~data.some
    /\ data' = Some(d)
    /\ UNCHANGED <<caller, pad, pad_origin, gen, calls>>

Call(op, r) ==
    /\ calls' = Append(calls, [op |-> op, pad |-> pad.v, data |-> data.v,
                               ret |-> r.ret,
                               pad_after |-> r.pad_buffer,
                               data_after |-> r.data_buffer])
    /\ pad' = Some(r.pad_buffer)
    /\ data' = Some(r.data_buffer)
    /\ caller' = IF r.ret.tag = "Panic" THEN "panicked" ELSE "running"
    /\ UNCHANGED <<pad_origin, gen>>

\* OneTimePad::encrypt(&pad, &data)
Encrypt ==
    /\ caller = "running"
    /\ pad.some /\ data.some
    /\ Len(calls) < MaxCalls
    /\ Call("encrypt", encrypt(pad.v, data.v))

\* OneTimePad::decrypt(&pad, &data)
Decrypt ==
    /\ caller = "running"
    /\ pad.some /\ data.some
    /\ Len(calls) < MaxCalls
    /\ Call("decrypt", decrypt(pad.v, data.v))

\* the output of the last call becomes the data of the next one
UseOutput ==
    /\ caller = "running"
    /\ calls # <<>>
    /\ calls[Len(calls)].ret.tag = "Ok"
    /\ data' = Some(calls[Len(calls)].ret.val)
    /\ UNCHANGED <<caller, pad, pad_origin, gen, calls>>

Next ==
    \/ \E length \in 0 .. MaxLen :
         \E entropy \in EntropyOutcomes(length) : GeneratePad(length, entropy)
    \/ \E p \in LiteralPads : LiteralPad(p)
    \/ \E d \in SeqsUpTo(ByteSample, MaxLen) \cup LiteralData : LoadData(d)
    \/ Encrypt
    \/ Decrypt
    \/ UseOutput

Spec == Init /\ [][Next]_vars

(* ------------------------- helpers of the claims ----------------------- *)

Bit(x, k) == (x \div pow2(k)) % 2

\* c is the exclusive-or of the bytes a and b: bit k of c is set exactly when
\* bit k of a and bit k of b differ
IsXorOf(c, a, b) ==
    /\ c \in 0 .. (pow2(U8_BITS) - 1)
    /\ \A k \in 0 .. (U8_BITS - 1) : (Bit(c, k) = 1) <=> (Bit(a, k) # Bit(b, k))

AllZero(s) == \A i \in 1 .. Len(s) : s[i] = 0

Idx == 1 .. Len(calls)

\* the arguments the transform accepts
EqualNonzero(e) == Len(e.pad) = Len(e.data) /\ Len(e.pad) >= 1

(* --------------------------------- C1 ---------------------------------- *)

\* C1: round trip. Every encrypt and every decrypt of a pad and a data buffer
\* of equal nonzero length succeeds, and a decrypt of an encrypt's output
\* under the same pad returns the buffer that was encrypted.
C1_RoundTrip ==
    /\ \A i \in Idx : EqualNonzero(calls[i]) => calls[i].ret.tag = "Ok"
    /\ \A i \in Idx : \A j \in Idx :
         ( /\ i < j
           /\ calls[i].op = "encrypt"
           /\ calls[j].op = "decrypt"
           /\ EqualNonzero(calls[i])
           /\ calls[j].pad = calls[i].pad
           /\ calls[j].data = calls[i].ret.val )
         => calls[j].ret = Ok(calls[i].data)

C1_Witness ==
    /\ Len(calls) >= 2
    /\ calls[1].op = "encrypt"
    /\ calls[2].op = "decrypt"
    /\ calls[1].pad = <<1, 255>>
    /\ calls[1].data = <<255, 0>>
    /\ calls[2].pad = calls[1].pad
    /\ calls[2].data = calls[1].ret.val
    /\ calls[2].data # calls[1].data
    /\ calls[2].ret = Ok(calls[1].data)

(* --------------------------------- C2 ---------------------------------- *)

\* C2: for a pad and data of equal nonzero length n, encrypt and decrypt
\* return n bytes, byte i being pad[i] XOR data[i] and nothing else; the
\* known vector of tests::edge_cases_encrypt gives the known result.
C2_BytewiseXor ==
    \A i \in Idx :
        LET e == calls[i]
        IN EqualNonzero(e) =>
             /\ e.ret.tag = "Ok"
             /\ Len(e.ret.val) = Len(e.pad)
             /\ \A k \in 1 .. Len(e.pad) :
                    IsXorOf(e.ret.val[k], e.pad[k], e.data[k])
             /\ (e.pad = KnownPad /\ e.data = KnownPlain)
                    => e.ret.val = KnownResult

C2_Witness ==
    \E i \in Idx :
        /\ calls[i].op = "encrypt"
        /\ calls[i].pad = KnownPad
        /\ calls[i].data = KnownPlain
        /\ calls[i].ret = Ok(KnownResult)

(* --------------------------------- C3 ---------------------------------- *)

\* C3 as stated: a call with len(pad) # len(data) fails with a
\* LengthMismatchError, an error of its own kind, and returns no output.
C3_AsStated ==
    \A i \in Idx :
        Len(calls[i].pad) # Len(calls[i].data) =>
            /\ calls[i].ret.tag = "Err"
            /\ calls[i].ret.err = "LengthMismatchError"
            /\ calls[i].ret.val = <<>>

\* C3: a call of encrypt or decrypt with len(pad) # len(data) fails and
\* returns no output; the failure is the panic of error_check with its one
\* message, the same failure an empty buffer gives.
C3_MismatchPanics ==
    \A i \in Idx :
        Len(calls[i].pad) # Len(calls[i].data) =>
            /\ calls[i].ret = Panic(PanicMsg)
            /\ calls[i].ret.val = <<>>

C3_Witness ==
    \E i \in Idx :
        /\ calls[i].op = "encrypt"
        /\ calls[i].pad = ShortPad
        /\ calls[i].data = ShortData
        /\ calls[i].ret.tag = "Panic"

(* --------------------------------- C4 ---------------------------------- *)

\* C4 as stated: a call whose pad or data is empty fails with an
\* EmptyBufferError, an error of its own kind, and returns no output.
C4_AsStated ==
    \A i \in Idx :
        (Len(calls[i].pad) = 0 \/ Len(calls[i].data) = 0) =>
            /\ calls[i].ret.tag = "Err"
            /\ calls[i].ret.err = "EmptyBufferError"
            /\ calls[i].ret.val = <<>>

\* C4: a call of encrypt or decrypt whose pad or data is empty fails and
\* returns no output; the failure is the panic of error_check with its one
\* message, the same failure a length mismatch gives.
C4_EmptyPanics ==
    \A i \in Idx :
        (Len(calls[i].pad) = 0 \/ Len(calls[i].data) = 0) =>
            /\ calls[i].ret = Panic(PanicMsg)
            /\ calls[i].ret.val = <<>>

C4_Witness ==
    \E i \in Idx :
        /\ calls[i].op = "encrypt"
        /\ calls[i].pad = <<>>
        /\ calls[i].data = <<>>
        /\ calls[i].ret.tag = "Panic"

(* --------------------------------- C5 ---------------------------------- *)

C6_AsStated ==
    \A i \in Idx :
        LET e == calls[i]
        IN ( /\ e.op = "encrypt"
             /\ EqualNonzero(e)
             /\ ~(AllZero(e.pad) /\ AllZero(e.data))
             /\ e.pad # e.data )
           => e.ret.val # e.data

\* C6: for P and X of equal nonzero length where P is not all-zero,
\* encrypt(P, X) differs from X.
C6_NonIdentity ==
    \A i \in Idx :
        LET e == calls[i]
        IN (e.op = "encrypt" /\ EqualNonzero(e) /\ ~AllZero(e.pad))
           => (e.ret.tag = "Ok" /\ e.ret.val # e.data)

C6_Witness ==
    \E i \in Idx :
        /\ calls[i].op = "encrypt"
        /\ calls[i].pad = <<0, 1>>
        /\ calls[i].data = <<0, 1>>
        /\ calls[i].ret = Ok(<<0, 0>>)

(* --------------------------------- C7 ---------------------------------- *)

CompleteOutput(e) ==
    /\ e.ret.tag = "Ok"
    /\ Len(e.ret.val) = Len(e.pad)
    /\ Len(e.ret.val) = Len(e.data)

\* C7 as stated: every call ends with a complete output of the input length
\* or with an error and no output, handed back to a caller that runs on.
C7_AsStated ==
    /\ caller = "running"
    /\ \A i \in Idx :
         \/ CompleteOutput(calls[i])
         \/ (calls[i].ret.tag = "Err" /\ calls[i].ret.val = <<>>)

\* C7: every call ends with a complete output of the input length, or with
\* the panic of error_check and no output at all, never with a truncated
\* output; the panic ends the caller, so it is the caller's last call.
C7_CompleteOrPanic ==
    /\ \A i \in Idx :
         \/ CompleteOutput(calls[i])
         \/ /\ calls[i].ret = Panic(PanicMsg)
            /\ calls[i].ret.val = <<>>
            /\ i = Len(calls)
            /\ caller = "panicked"
    /\ caller = "panicked" =>
         (calls # <<>> /\ calls[Len(calls)].ret.tag = "Panic")

C7_Witness ==
    /\ caller = "panicked"
    /\ Len(calls) = 1
    /\ calls[1].op = "decrypt"
    /\ calls[1].pad = <<255, 1>>
    /\ calls[1].data = <<1>>
    /\ calls[1].ret.val = <<>>

(* --------------------------------- C8 ---------------------------------- *)

\* C8: a call leaves the pad and the data buffer as they were, whether it
\* succeeds or fails, and what it returns depends on its two arguments only:
\* two calls with the same arguments return the same, whatever came between.
C8_Pure ==
    /\ \A i \in Idx :
         /\ calls[i].pad_after = calls[i].pad
         /\ calls[i].data_after = calls[i].data
    /\ \A i \in Idx : \A j \in Idx :
         (calls[i].pad = calls[j].pad /\ calls[i].data = calls[j].data)
         => calls[i].ret = calls[j].ret
    /\ (calls # <<>> /\ pad.some) => pad.v = calls[1].pad

C8_Witness ==
    /\ Len(calls) = 3
    /\ calls[1].ret.tag = "Ok"
    /\ ~AllZero(calls[1].pad)
    /\ calls[2].data = calls[1].ret.val
    /\ calls[3].pad = calls[1].pad
    /\ calls[3].data = calls[1].data
    /\ calls[3].ret = calls[1].ret

(* --------------------------------- C9 ---------------------------------- *)

\* C9: for every pad and data, valid or not, what encrypt did is what
\* decrypt does with the same two buffers, and the other way round.
C9_SameOperation ==
    \A i \in Idx :
        LET e == calls[i]
        IN /\ e.op = "encrypt" => e.ret = decrypt(e.pad, e.data).ret
           /\ e.op = "decrypt" => e.ret = encrypt(e.pad, e.data).ret

C9_Witness ==
    \E i \in Idx : \E j \in Idx :
        /\ calls[i].op = "encrypt"
        /\ calls[j].op = "decrypt"
        /\ calls[i].pad = calls[j].pad
        /\ calls[i].data = calls[j].data
        /\ calls[i].ret = calls[j].ret
        /\ calls[i].ret.tag = "Ok"
        /\ calls[i].ret.val # calls[i].data

(* --------------------------------- C10 --------------------------------- *)

\* C10: with a pad that generate_random_pad(n) returned, a call with data of
\* length n succeeds exactly when n >= 1; with the pad of
\* generate_random_pad(0) every call fails, also with empty data.
C10_GenerateThenTransform ==
    pad_origin = "generated" =>
        \A i \in Idx :
            /\ calls[i].pad = gen.ret.val
            /\ Len(calls[i].data) = gen.length
                 => (calls[i].ret.tag = "Ok" <=> gen.length >= 1)
            /\ gen.length = 0 => calls[i].ret.tag = "Panic"

C10_Witness ==
    /\ pad_origin = "generated"
    /\ gen.length = 0
    /\ gen.ret = Ok(<<>>)
    /\ calls # <<>>
    /\ calls[1].pad = <<>>
    /\ calls[1].data = <<>>
    /\ calls[1].ret.tag = "Panic"

====
